---- MODULE Spec2Model ----
(***************************************************************************)
(* A model of codexctl (src/codexctl/__init__.py): the update.conf patch   *)
(* (set_server_config / edit_config), the restore workflow (do_restore and *)
(* the RESTORE_CODE shell script) and the install workflow (do_install).   *)
(*                                                                         *)
(* Python strings are sequences of one-character strings, so that split,   *)
(* join, startswith, lower and the f-string formatting are computed as the *)
(* code computes them.                                                     *)
(***************************************************************************)
EXTENDS Integers, Sequences, FiniteSets, TLC

\* ------------------------------------------------------------------------
\* Bounds of the model
\* ------------------------------------------------------------------------

\* a config document has between 1 and MaxLines lines
MaxLines == 3

\* number of successive edit_config calls followed in SpecPatch
MaxPatches == 2

\* ------------------------------------------------------------------------
\* Strings
\* ------------------------------------------------------------------------

NL == "\n"

S_General == <<"[", "G", "e", "n", "e", "r", "a", "l", "]">>

S_SERVER == <<"S", "E", "R", "V", "E", "R", "=">>

S_old == <<"o", "l", "d">>

S_http == <<"h", "t", "t", "p", ":", "/", "/">>

IP_1234 == <<"1", ".", "2", ".", "3", ".", "4">>

IP_any == <<"0", ".", "0", ".", "0", ".", "0">>

\* str.startswith
StartsWith(s, p) == Len(s) >= Len(p) /\ SubSeq(s, 1, Len(p)) = p

\* str.split(sep) for a one-character separator: the fields between the
\* occurrences of sep, one more field than there are occurrences
Split(s, sep) ==
    LET P == {i \in 1..Len(s) : s[i] = sep}
        n == Cardinality(P)
        Pos(k) == IF k = 0 THEN 0
                  ELSE IF k = n + 1 THEN Len(s) + 1
                  ELSE CHOOSE i \in P : Cardinality({j \in P : j < i}) = k - 1
    IN  [k \in 1..(n + 1) |-> SubSeq(s, Pos(k - 1) + 1, Pos(k) - 1)]

\* sep.join(list)
RECURSIVE Join(_, _)
Join(list, sep) ==
    IF Len(list) = 0 THEN <<>>
    ELSE IF Len(list) = 1 THEN list[1]
    ELSE list[1] \o <<sep>> \o Join(Tail(list), sep)

Digit(d) == <<"0", "1", "2", "3", "4", "5", "6", "7", "8", "9">>[d + 1]

\* str(int) for a non-negative integer, as the f-string formats {port}
RECURSIVE DecStr(_)
DecStr(n) == IF n < 10 THEN <<Digit(n)>> ELSE DecStr(n \div 10) \o <<Digit(n % 10)>>

UpperLetters ==
    <<"A", "B", "C", "D", "E", "F", "G", "H", "I", "J", "K", "L", "M",
      "N", "O", "P", "Q", "R", "S", "T", "U", "V", "W", "X", "Y", "Z">>

LowerLetters ==
    <<"a", "b", "c", "d", "e", "f", "g", "h", "i", "j", "k", "l", "m",
      "n", "o", "p", "q", "r", "s", "t", "u", "v", "w", "x", "y", "z">>

\* str.lower
Lower(s) ==
    [i \in 1..Len(s) |->
        IF \E k \in 1..Len(UpperLetters) : UpperLetters[k] = s[i]
        THEN LowerLetters[CHOOSE k \in 1..Len(UpperLetters) : UpperLetters[k] = s[i]]
        ELSE s[i]]

\* the Python test `c in s` for a one-character string c
Contains(s, c) == \E i \in 1..Len(s) : s[i] = c

\* ------------------------------------------------------------------------
\* set_server_config, edit_config
\* ------------------------------------------------------------------------

\* the port do_install passes to edit_config
UPDATE_PORT == 8080

\* line 185: f"http://{server_ip}:{port}"
server_host_name(server_ip, port) == S_http \o server_ip \o <<":">> \o DecStr(port)

GeneralLineOffByOne(data) ==
    LET G == {i \in 1..Len(data) : StartsWith(data[i], S_General)}
    IN  IF G = {} THEN 0 ELSE (CHOOSE i \in G : \A j \in G : j <= i) - 1

GeneralLineDefaultEnd(data) ==
    LET G == {i \in 1..Len(data) : StartsWith(data[i], S_General)}
    IN  IF G = {} THEN Len(data) ELSE CHOOSE i \in G : \A j \in G : j <= i

\* lines 145-152: the Python index `line` after the loop: 0 at the start, and
\* i + 1 for the last i whose line starts with "[General]" (the TLA+ index of
\* that line, since TLA+ sequences start at 1)
GeneralLine(data) ==
    LET G == {i \in 1..Len(data) : StartsWith(data[i], S_General)}
    IN  IF G = {} THEN 0 ELSE CHOOSE i \in G : \A j \in G : j <= i

CommentOutNothing(l) == l

\* line 156: f"#{data_attributes[i]}"
CommentOut(l) == <<"#">> \o l

DeactivatedFirstOnly(data) ==
    LET Sv == {i \in 1..Len(data) : StartsWith(data[i], S_SERVER)}
    IN  [i \in 1..Len(data) |->
            IF i \in Sv /\ (\A j \in Sv : i <= j) THEN CommentOut(data[i]) ELSE data[i]]

\* lines 149-157: every line that starts with "SERVER=" is commented out
Deactivated(data) ==
    [i \in 1..Len(data) |->
        IF StartsWith(data[i], S_SERVER) THEN CommentOut(data[i]) ELSE data[i]]

ListInsertOverwrite(list, i, x) ==
    IF i >= Len(list) THEN Append(list, x)
    ELSE SubSeq(list, 1, i) \o <<x>> \o SubSeq(list, i + 2, Len(list))

\* line 159: list.insert(i, x) for a Python index 0 <= i <= len(list)
ListInsert(list, i, x) == SubSeq(list, 1, i) \o <<x>> \o SubSeq(list, i + 1, Len(list))

\* lines 143-164
set_server_config(contents, host_name) ==
    LET data_attributes == Split(contents, NL)
        line == GeneralLine(data_attributes)
    IN  Join(ListInsert(Deactivated(data_attributes), line, S_SERVER \o host_name), NL)

\* ------------------------------------------------------------------------
\* get_host_ip
\* ------------------------------------------------------------------------

S_usb_prefix == <<"1", "0", ".", "1", "1", ".", "9", "9">>

\* the address connect_to_rm defaults to, and do_restore uses over USB
IP_device_usb == S_usb_prefix \o <<".", "1">>

IP_host_usb == S_usb_prefix \o <<".", "2">>

IP_host_lan == <<"1", "9", "2", ".", "1", "6", "8", ".", "1", ".", "5">>

IP_device_lan == <<"1", "9", "2", ".", "1", "6", "8", ".", "1", ".", "9">>

IP_v6 == <<"f", "e", "8", "0", ":", ":", "1">>

\* lines 54-61: the loop over the addresses psutil.net_if_addrs() reports, in
\* order; returns at the first IPv4 address that starts with "10.11.99"
RECURSIVE HostIpLoop(_, _, _)
HostIpLoop(snics, i, possible_ips) ==
    IF i > Len(snics) THEN possible_ips
    ELSE IF snics[i].family = "AF_INET"
         THEN IF StartsWith(snics[i].address, S_usb_prefix)
              THEN <<snics[i].address>>
              ELSE HostIpLoop(snics, i + 1, Append(possible_ips, snics[i].address))
         ELSE HostIpLoop(snics, i + 1, possible_ips)

\* lines 48-65: an exception of the enumeration is logged and the list
\* collected so far (none, when psutil cannot be used) is returned
get_host_ip(snics, error) == IF error THEN <<>> ELSE HostIpLoop(snics, 1, <<>>)

\* ------------------------------------------------------------------------
\* State
\* ------------------------------------------------------------------------

VARIABLES
    update_conf,    \* contents of /usr/share/remarkable/update.conf on the device
    conf_before,    \* update.conf as the last edit_config read it
    last_ip,        \* server_ip of the last edit_config
    prev_ip,        \* server_ip of the edit_config before that
    npatch,         \* number of edit_config calls so far
    workflow,       \* "patch", "restore" or "install": the command that runs
    pc,             \* position of the foreground workflow
    result,         \* how the command ended: [kind, msg]
    printed,        \* messages and prompts written to the operator so far
    answer,         \* the operator's answer to the restore confirmation
    on_device,      \* the tool runs on the tablet (update.conf exists / is_rm())
    deps_met,       \* REMOTE_DEPS_MET: paramiko could be imported
    snics,          \* the addresses psutil enumerates on the host
    psutil_error,   \* the enumeration raises
    remote_ip,      \* the address the SSH connection is made to
    session,        \* an SSH session to the device is open (remarkable_remote)
    env,            \* the device's boot environment (fw_printenv / fw_setenv)
    env0,           \* the boot environment when the command started
    sh,             \* the run of RESTORE_CODE on the device
    powered_off,    \* "shutdown now" has been carried out
    token,          \* args.version: the version the operator asked for
    device_type,    \* 1 or 2, from --rm1
    version,        \* the version version_lookup resolved
    staged,         \* what scanUpdates() finds in ./updates: <<[device, ids], ...>>
    available_versions, \* do_install's available_versions
    server_host,    \* do_install's server_host once it is an address
    server,         \* the startUpdate thread: "off", "starting", "listening", "failed"
    served,         \* the payload set handed to startUpdate
    engine,         \* the device's update-engine service
    client,         \* the run of update_engine_client on the device
    probe,          \* exit status of the reachability check on the device, -1 before
    temp_dir        \* the serve folder: "serve_folder" (given by the operator), or a
                    \* temporary one: "unset", "created", "removed"

patchVars == <<update_conf, conf_before, last_ip, prev_ip, npatch>>

flowVars == <<workflow, pc, result, printed, answer, remote_ip, session>>

hostVars == <<on_device, deps_met, snics, psutil_error>>

deviceVars == <<env, env0, sh, powered_off>>

installVars == <<token, device_type, version, staged, available_versions, server_host,
                 server, served, engine, client, temp_dir, probe>>

vars == <<patchVars, flowVars, hostVars, deviceVars, installVars>>

Running == [kind |-> "running", msg |-> ""]

Returned == [kind |-> "returned", msg |-> ""]

\* raise SystemExit(msg): the process ends with a non-zero status and msg
SystemExit(msg) == [kind |-> "SystemExit", msg |-> msg]

\* an exception nothing catches: subprocess.CalledProcessError
CalledProcessError == [kind |-> "CalledProcessError", msg |-> ""]

\* an exception nothing catches raised by the SSH connection
ConnectError == [kind |-> "Exception", msg |-> "connect"]

ScriptIdle == [pc |-> "idle", OLDPART |-> "", NEWPART |-> "", rc |-> 0, failed |-> FALSE]

IdleDevice ==
    /\ env = [active_partition |-> "2", fallback_partition |-> "3",
              upgrade_available |-> "0", bootcount |-> "0"]
    /\ env0 = env
    /\ sh = ScriptIdle
    /\ powered_off = FALSE

IdleFlow ==
    /\ pc = "done"
    /\ result = Running
    /\ printed = {}
    /\ answer = <<"-">>
    /\ remote_ip = <<>>
    /\ session = FALSE

\* None
None == <<>>

ClientIdle == [state |-> "idle", rc |-> 0, stderr |-> ""]

IdleInstall ==
    /\ token = "latest"
    /\ device_type = 2
    /\ version = ""
    /\ staged = <<>>
    /\ available_versions = None
    /\ server_host = <<>>
    /\ server = "off"
    /\ served = None
    /\ engine = "stopped"
    /\ client = ClientIdle
    /\ temp_dir = "serve_folder"
    /\ probe = -1

IdleHost ==
    /\ on_device = TRUE
    /\ deps_met = TRUE
    /\ snics = <<>>
    /\ psutil_error = FALSE

\* ------------------------------------------------------------------------
\* SpecPatch: edit_config applied to bounded config documents
\* ------------------------------------------------------------------------

\* the lines config documents are made of
LinePool ==
    { S_General,
      S_General \o <<"x">>,
      S_SERVER \o S_old,
      <<"#">> \o S_SERVER \o <<"x">>,
      <<"a", "=", "1">>,
      <<" ">> \o S_SERVER,
      <<>> }

RECURSIVE SeqsUpTo(_, _)
SeqsUpTo(S, n) ==
    IF n = 0 THEN {<<>>}
    ELSE LET R == SeqsUpTo(S, n - 1)
         IN  R \cup {Append(r, x) : r \in {q \in R : Len(q) = n - 1}, x \in S}

Docs == {Join(ls, NL) : ls \in (SeqsUpTo(LinePool, MaxLines) \ {<<>>})}

ServerIPs == {IP_1234, IP_any}

InitPatch ==
    /\ update_conf \in Docs
    /\ conf_before = update_conf
    /\ last_ip = <<>>
    /\ prev_ip = <<>>
    /\ npatch = 0
    /\ workflow = "patch"
    /\ IdleFlow
    /\ IdleHost
    /\ IdleDevice
    /\ IdleInstall

\* lines 184-196 (and 198-210 over SFTP): read, set_server_config, write back
edit_config(server_ip, port) ==
    /\ npatch < MaxPatches
    /\ update_conf' = set_server_config(update_conf, server_host_name(server_ip, port))
    /\ conf_before' = update_conf
    /\ prev_ip' = last_ip
    /\ last_ip' = server_ip
    /\ npatch' = npatch + 1

PatchConfig ==
    /\ workflow = "patch"
    /\ \E ip \in ServerIPs : edit_config(ip, UPDATE_PORT)
    /\ UNCHANGED <<flowVars, hostVars, deviceVars, installVars>>

NextPatch == PatchConfig

SpecPatch == InitPatch /\ [][NextPatch]_vars

\* ------------------------------------------------------------------------
\* RESTORE_CODE: the partition-swap script, one action per command
\* ------------------------------------------------------------------------

\* /sbin/fw_setenv name value: writes the variable when it succeeds, leaves
\* the environment alone when it fails; an empty value deletes the variable,
\* which reads back as the empty string
fw_setenv(e, name, value, ok) == IF ok THEN [e EXCEPT ![name] = value] ELSE e

ExitStatus(ok) == IF ok THEN 0 ELSE 1

\* a script that picks the partition it read
NewPartSame(oldpart) == oldpart

NewPartTestsThree(oldpart) == IF oldpart = "3" THEN "3" ELSE "2"

\* lines 35-39: [ $OLDPART == "2" ] picks "3", anything else (the test failing
\* on an empty $OLDPART included) picks "2"
NewPart(oldpart) == IF oldpart = "2" THEN "3" ELSE "2"

ScriptStarted ==
    [pc |-> "set_upgrade_available", OLDPART |-> "", NEWPART |-> "", rc |-> 0,
     failed |-> FALSE]

ScriptStep(next, ok) ==
    [sh EXCEPT !.pc = next, !.rc = ExitStatus(ok), !.failed = @ \/ ~ok]

\* line 31
ScriptSetUpgradeAvailable ==
    /\ sh.pc = "set_upgrade_available"
    /\ \E ok \in BOOLEAN :
        /\ env' = fw_setenv(env, "upgrade_available", "1", ok)
        /\ sh' = ScriptStep("set_bootcount", ok)
    /\ UNCHANGED <<installVars, patchVars, flowVars, hostVars, env0, powered_off>>

\* line 32
ScriptSetBootcount ==
    /\ sh.pc = "set_bootcount"
    /\ \E ok \in BOOLEAN :
        /\ env' = fw_setenv(env, "bootcount", "0", ok)
        /\ sh' = ScriptStep("read_active", ok)
    /\ UNCHANGED <<installVars, patchVars, flowVars, hostVars, env0, powered_off>>

\* line 34: OLDPART=$(/sbin/fw_printenv -n active_partition); nothing is
\* captured when fw_printenv fails
ScriptReadActive ==
    /\ sh.pc = "read_active"
    /\ \E ok \in BOOLEAN :
        sh' = [ScriptStep("choose", ok) EXCEPT
                  !.OLDPART = IF ok THEN env.active_partition ELSE ""]
    /\ UNCHANGED <<installVars, patchVars, flowVars, hostVars, env, env0, powered_off>>

\* lines 35-41
ScriptChoose ==
    /\ sh.pc = "choose"
    /\ sh' = [sh EXCEPT !.pc = "write_fallback", !.NEWPART = NewPart(sh.OLDPART), !.rc = 0]
    /\ UNCHANGED <<installVars, patchVars, flowVars, hostVars, env, env0, powered_off>>

\* a script whose first write is the one of active_partition
ScriptWriteActiveFirst ==
    /\ sh.pc = "write_fallback"
    /\ \E ok \in BOOLEAN :
        /\ env' = fw_setenv(env, "active_partition", sh.NEWPART, ok)
        /\ sh' = ScriptStep("write_active", ok)
    /\ UNCHANGED <<installVars, patchVars, flowVars, hostVars, env0, powered_off>>

\* line 43
ScriptWriteFallback ==
    /\ sh.pc = "write_fallback"
    /\ \E ok \in BOOLEAN :
        /\ env' = fw_setenv(env, "fallback_partition", sh.OLDPART, ok)
        /\ sh' = ScriptStep("write_active", ok)
    /\ UNCHANGED <<installVars, patchVars, flowVars, hostVars, env0, powered_off>>

\* line 44: the last command, whose exit status is the script's
ScriptWriteActive ==
    /\ sh.pc = "write_active"
    /\ \E ok \in BOOLEAN :
        /\ env' = fw_setenv(env, "active_partition", sh.NEWPART, ok)
        /\ sh' = ScriptStep("exited", ok)
    /\ UNCHANGED <<installVars, patchVars, flowVars, hostVars, env0, powered_off>>

Script ==
    \/ ScriptSetUpgradeAvailable
    \/ ScriptSetBootcount
    \/ ScriptReadActive
    \/ ScriptChoose
    \/ ScriptWriteFallback
    \/ ScriptWriteActive

\* ------------------------------------------------------------------------
\* Steps shared by do_restore and do_install
\* ------------------------------------------------------------------------

\* what the operator may type at a prompt
Answers == { <<"y">>, <<"Y">>, <<"n">>, <<"N">>, <<>>, <<"Y", "e", "s">>, <<"n", "o">> }

\* the addresses the operator may give for the device
DeviceIPs == {IP_device_lan, IP_device_usb}

SaysYesUnlessNo(a) == ~Contains(Lower(a), "n")

\* lines 514, 470, 525: "y" in input(...).lower()
SaysYes(a) == Contains(Lower(a), "y")

\* lines 213-219: asks for the address until the operator does not answer "n"
get_remarkable_ip ==
    /\ pc = "ask_device_ip"
    /\ \E ip \in DeviceIPs, a \in Answers :
        /\ printed' = printed \cup {"Please enter the IP of the remarkable device: ",
                                    "Are you sure? (Y/n) "}
        /\ IF Lower(a) # <<"n">>
           THEN remote_ip' = ip /\ pc' = "connect"
           ELSE UNCHANGED <<remote_ip, pc>>
    /\ UNCHANGED <<installVars, patchVars, workflow, result, answer, session, hostVars, deviceVars>>

\* lines 90-140: the connection succeeds, or the credential is rejected and
\* asked for again, or the connection raises what nothing catches
connect_to_rm ==
    /\ pc = "connect"
    /\ \E outcome \in {"connected", "rejected", "error"} :
        CASE outcome = "connected" ->
                /\ session' = TRUE
                /\ printed' = printed \cup {"Connected to device"}
                /\ pc' = IF workflow = "restore" THEN "remote_swap" ELSE "edit_config"
                /\ sh' = IF workflow = "restore" THEN ScriptStarted ELSE sh
                /\ UNCHANGED result
          [] outcome = "rejected" ->
                /\ printed' = printed \cup {"Incorrect password given"}
                /\ UNCHANGED <<session, pc, sh, result>>
          [] outcome = "error" ->
                /\ result' = ConnectError
                /\ pc' = "done"
                /\ UNCHANGED <<session, printed, sh>>
    /\ UNCHANGED <<installVars, patchVars, workflow, answer, remote_ip, hostVars, env, env0, powered_off>>

\* ------------------------------------------------------------------------
\* do_restore
\* ------------------------------------------------------------------------

MsgDeps == "Error: Detected as running on the remote device, but could not resolve dependencies."

\* lines 513-517, 532-536: the confirmation, then the choice of the path
RestoreConfirm ==
    /\ workflow = "restore"
    /\ pc = "confirm"
    /\ \E a \in Answers :
        /\ answer' = a
        /\ printed' = printed \cup {"Are you sure you want to restore? (y/N): "}
        /\ IF ~SaysYes(a)
           THEN /\ result' = SystemExit("Aborted!!!")
                /\ pc' = "done"
                /\ UNCHANGED sh
           ELSE IF on_device
           THEN /\ pc' = "local_swap"
                /\ sh' = ScriptStarted
                /\ UNCHANGED result
           ELSE IF ~deps_met
           THEN /\ result' = SystemExit(MsgDeps)
                /\ pc' = "done"
                /\ UNCHANGED sh
           ELSE /\ pc' = "topology"
                /\ UNCHANGED <<result, sh>>
    /\ UNCHANGED <<installVars, patchVars, workflow, remote_ip, session, hostVars, env, env0, powered_off>>

\* lines 518-525: subprocess.run(..., check=True) returns when the script has
\* exited and raises on a non-zero status; then the shutdown prompt
RestoreLocalVerify ==
    /\ workflow = "restore"
    /\ pc = "local_swap"
    /\ sh.pc = "exited"
    /\ IF sh.rc # 0
       THEN /\ result' = CalledProcessError
            /\ pc' = "done"
            /\ UNCHANGED printed
       ELSE /\ pc' = "shutdown_prompt"
            /\ printed' = printed \cup {"Done! Would you like to shutdown? (y/N): "}
            /\ UNCHANGED result
    /\ UNCHANGED <<installVars, patchVars, workflow, answer, remote_ip, session, hostVars, deviceVars>>

\* lines 525-530: the operator's answer, and "shutdown now" with check=True
RestoreLocalShutdown ==
    /\ workflow = "restore"
    /\ pc = "shutdown_prompt"
    /\ \E a \in Answers, ok \in BOOLEAN :
        IF SaysYes(a)
        THEN /\ powered_off' = ok
             /\ result' = IF ok THEN Returned ELSE CalledProcessError
        ELSE /\ result' = Returned
             /\ UNCHANGED powered_off
    /\ pc' = "done"
    /\ UNCHANGED <<installVars, patchVars, workflow, printed, answer, remote_ip, session, hostVars,
                   env, env0, sh>>

\* lines 539-544
RestoreTopology ==
    /\ workflow = "restore"
    /\ pc = "topology"
    /\ IF Len(get_host_ip(snics, psutil_error)) = 1
       THEN /\ printed' = printed \cup {"Detected as USB connection"}
            /\ remote_ip' = IP_device_usb
            /\ pc' = "connect"
       ELSE /\ printed' = printed \cup {"Detected as WiFi connection"}
            /\ pc' = "ask_device_ip"
            /\ UNCHANGED remote_ip
    /\ UNCHANGED <<installVars, patchVars, workflow, result, answer, session, hostVars, deviceVars>>

\* lines 548-553: waits for the script's exit status, drops it, reports
RestoreRemoteDone ==
    /\ workflow = "restore"
    /\ pc = "remote_swap"
    /\ sh.pc = "exited"
    /\ printed' = printed \cup {"Done, Please reboot the device!"}
    /\ result' = Returned
    /\ pc' = "done"
    /\ UNCHANGED <<installVars, patchVars, workflow, answer, remote_ip, session, hostVars, deviceVars>>

\* number of addresses psutil may enumerate
MaxSnics == 2

SnicPool ==
    { [family |-> "AF_INET", address |-> IP_host_usb],
      [family |-> "AF_INET", address |-> IP_host_lan],
      [family |-> "AF_INET6", address |-> IP_v6] }

PartitionValues == {"2", "3", "4", ""}

\* where the tool runs. On the tablet itself nothing of the host's network is
\* read, and an enumeration that raises has enumerated nothing, so those
\* combinations are kept to one representative each.
HostSetup ==
    /\ on_device \in BOOLEAN
    /\ deps_met \in BOOLEAN
    /\ snics \in SeqsUpTo(SnicPool, MaxSnics)
    /\ psutil_error \in BOOLEAN
    /\ on_device => (deps_met /\ snics = <<>> /\ ~psutil_error)
    /\ psutil_error => snics = <<>>

InitRestore ==
    /\ workflow = "restore"
    /\ pc = "confirm"
    /\ result = Running
    /\ printed = {}
    /\ answer = <<"-">>
    /\ remote_ip = <<>>
    /\ session = FALSE
    /\ HostSetup
    /\ env \in [active_partition : PartitionValues, fallback_partition : PartitionValues,
                upgrade_available : {"0"}, bootcount : {"1"}]
    /\ env0 = env
    /\ sh = ScriptIdle
    /\ powered_off = FALSE
    /\ update_conf = S_General \o <<NL>> \o S_SERVER \o S_old \o <<NL>>
    /\ conf_before = update_conf
    /\ last_ip = <<>>
    /\ prev_ip = <<>>
    /\ npatch = 0
    /\ IdleInstall

NextRestore ==
    \/ RestoreConfirm
    \/ RestoreLocalVerify
    \/ RestoreLocalShutdown
    \/ RestoreTopology
    \/ get_remarkable_ip
    \/ connect_to_rm
    \/ RestoreRemoteDone
    \/ Script

SpecRestore == InitRestore /\ [][NextRestore]_vars

\* ------------------------------------------------------------------------
\* The version catalog (UpdateManager) and the staged payloads (scanUpdates)
\* ------------------------------------------------------------------------

id_lookups_rm1 == {"2.15.0.1067", "3.2.3.1595"}

id_lookups_rm2 == {"3.2.3.1595"}

latest_toltec_version == "2.15.0.1067"

get_latest_version(device) == "3.2.3.1595"

LookupOk(v) == [kind |-> "ok", value |-> v, msg |-> ""]

LookupRaises(kind, msg) == [kind |-> kind, value |-> "", msg |-> msg]

MsgInvalidVersion == "Error: Invalid version! Examples: latest, toltec, 3.2.3.1595, 2.15.0.1067"

\* lines 68-87
version_lookup(v, device) ==
    IF v = "latest" THEN LookupOk(get_latest_version(device))
    ELSE IF v = "toltec" THEN LookupOk(latest_toltec_version)
    ELSE IF device \notin {1, 2}
    THEN LookupRaises("SystemError", "Error: Invalid device given!")
    ELSE LET version_dict == IF device = 2 THEN id_lookups_rm2 ELSE id_lookups_rm1
         IN  IF v \in version_dict THEN LookupOk(v)
             ELSE LookupRaises("SystemExit", MsgInvalidVersion)

\* lines 332-340: the first entry of the scan, in the scan's order, whose ids
\* contain the version, as a mapping of that one device; None when there is none
RECURSIVE AvailableFrom(_, _, _)
AvailableFrom(v, scan, i) ==
    IF i > Len(scan) THEN None
    ELSE IF v \in scan[i].ids THEN <<scan[i]>>
    ELSE AvailableFrom(v, scan, i + 1)

\* a lookup that takes the first scanned device whatever its ids are
AvailableFirstEntry(v, scan) == IF Len(scan) = 0 THEN None ELSE <<scan[1]>>

get_available_version(v, scan) == AvailableFrom(v, scan, 1)

\* updateman.get_version succeeded: the payload is in ./updates for the device
StageAdd(scan, device, v) ==
    IF \E i \in 1..Len(scan) : scan[i].device = device
    THEN [i \in 1..Len(scan) |->
            IF scan[i].device = device
            THEN [scan[i] EXCEPT !.ids = @ \cup {v}] ELSE scan[i]]
    ELSE Append(scan, [device |-> device, ids |-> {v}])

\* ------------------------------------------------------------------------
\* do_install
\* ------------------------------------------------------------------------

Fail(r) == result' = r /\ pc' = "done"

\* lines 344-359: the serve folder, then version_lookup
InstallResolve ==
    /\ workflow = "install"
    /\ pc = "resolve"
    /\ LET r == version_lookup(token, device_type)
       IN  IF r.kind = "ok"
           THEN version' = r.value /\ pc' = "ensure_staged" /\ UNCHANGED result
           ELSE Fail([kind |-> r.kind, msg |-> r.msg]) /\ UNCHANGED version
    /\ temp_dir' = IF temp_dir = "unset" THEN "created" ELSE temp_dir
    /\ UNCHANGED <<patchVars, workflow, printed, answer, remote_ip, session, hostVars,
                   deviceVars, token, device_type, staged, available_versions,
                   server_host, server, served, engine, client, probe>>

\* lines 360-365
InstallEnsureStaged ==
    /\ workflow = "install"
    /\ pc = "ensure_staged"
    /\ available_versions' = get_available_version(version, staged)
    /\ IF available_versions' = None
       THEN /\ printed' = printed \cup
                   {"The version firmware file you specified could not be found, attempting to download"}
            /\ pc' = "fetch"
       ELSE /\ pc' = "topology"
            /\ UNCHANGED printed
    /\ UNCHANGED <<patchVars, workflow, result, answer, remote_ip, session, hostVars,
                   deviceVars, token, device_type, version, staged,
                   server_host, server, served, engine, client, temp_dir, probe>>

\* lines 366-384: updateman.get_version, then the rescan
InstallFetch ==
    /\ workflow = "install"
    /\ pc = "fetch"
    /\ \E outcome \in {"None", "Not in version list", "Download folder does not exist",
                       "filename"} :
        CASE outcome = "None" ->
                /\ Fail(SystemExit("Error: Was not able to download firmware file!"))
                /\ UNCHANGED <<staged, available_versions>>
          [] outcome = "Not in version list" ->
                /\ Fail(SystemExit("Error: This version is not supported!"))
                /\ UNCHANGED <<staged, available_versions>>
          [] OTHER ->
                /\ staged' = IF outcome = "filename"
                             THEN StageAdd(staged, device_type, version) ELSE staged
                /\ available_versions' = get_available_version(version, staged')
                /\ IF available_versions' = None
                   THEN Fail(SystemExit(
                            "Error: Something went wrong trying to download update file!"))
                   ELSE pc' = "topology" /\ UNCHANGED result
    /\ UNCHANGED <<patchVars, workflow, printed, answer, remote_ip, session, hostVars,
                   deviceVars, token, device_type, version,
                   server_host, server, served, engine, client, temp_dir, probe>>

\* lines 386-413
InstallTopology ==
    /\ workflow = "install"
    /\ pc = "topology"
    /\ IF on_device
       THEN /\ server_host' = IP_any
            /\ pc' = "edit_config"
            /\ UNCHANGED <<result, printed, remote_ip>>
       ELSE IF ~deps_met
       THEN /\ Fail(SystemExit(MsgDeps))
            /\ UNCHANGED <<server_host, printed, remote_ip>>
       ELSE LET hosts == get_host_ip(snics, psutil_error)
            IN  IF Len(hosts) = 1
                THEN /\ server_host' = hosts[1]
                     /\ remote_ip' = IP_device_usb
                     /\ pc' = "connect"
                     /\ UNCHANGED <<result, printed>>
                ELSE /\ printed' = printed \cup
                            {"Could not find USB interface, assuming connected over WiFi"}
                     /\ pc' = "ask_host_ip"
                     /\ UNCHANGED <<result, server_host, remote_ip>>
    /\ UNCHANGED <<patchVars, workflow, answer, session, hostVars, deviceVars,
                   token, device_type, version, staged, available_versions,
                   server, served, engine, client, temp_dir, probe>>

\* what the operator may type as the host's address
HostIPs == {IP_host_lan, IP_host_usb, IP_1234, <<>>}

\* lines 414-427: asks until the address is one of the listed ones and the
\* operator does not answer with an "n"
InstallAskHostIp ==
    /\ workflow = "install"
    /\ pc = "ask_host_ip"
    /\ \E ip \in HostIPs, a \in Answers :
        LET host_interfaces == Join(get_host_ip(snics, psutil_error), NL)
        IN  IF \A i \in 1..Len(Split(host_interfaces, NL)) : Split(host_interfaces, NL)[i] # ip
            THEN /\ printed' = printed \cup {"Error: Invalid IP given"}
                 /\ UNCHANGED <<server_host, pc>>
            ELSE IF Contains(Lower(a), "n")
            THEN UNCHANGED <<server_host, pc, printed>>
            ELSE /\ server_host' = ip
                 /\ pc' = "ask_device_ip"
                 /\ UNCHANGED printed
    /\ UNCHANGED <<patchVars, workflow, result, answer, remote_ip, session, hostVars,
                   deviceVars, token, device_type, version, staged, available_versions,
                   server, served, engine, client, temp_dir, probe>>

\* an exception nothing catches raised by reading or writing update.conf
ConfigError == [kind |-> "Exception", msg |-> "update.conf"]

\* an install that goes on to the server without writing update.conf
InstallEditConfigSkipped ==
    /\ workflow = "install"
    /\ pc = "edit_config"
    /\ printed' = printed \cup {"Available versions to update to are:"}
    /\ pc' = "start_server"
    /\ UNCHANGED <<patchVars, workflow, result, answer, remote_ip, session, hostVars,
                   deviceVars, installVars>>

\* lines 431-436
InstallEditConfig ==
    /\ workflow = "install"
    /\ pc = "edit_config"
    /\ \/ /\ edit_config(server_host, UPDATE_PORT)
          /\ printed' = printed \cup {"Available versions to update to are:"}
          /\ pc' = "start_server"
          /\ UNCHANGED result
       \/ /\ Fail(ConfigError)
          /\ UNCHANGED <<patchVars, printed>>
    /\ UNCHANGED <<workflow, answer, remote_ip, session, hostVars, deviceVars, installVars>>

\* lines 438-445: the thread is started and do_install goes on at once
InstallStartServer ==
    /\ workflow = "install"
    /\ pc = "start_server"
    /\ server' = "starting"
    /\ served' = available_versions
    /\ pc' = IF session THEN "probe" ELSE "start_engine"
    /\ UNCHANGED <<patchVars, workflow, result, printed, answer, remote_ip, session,
                   hostVars, deviceVars, token, device_type, version, staged,
                   available_versions, server_host, engine, client, temp_dir, probe>>

\* the startUpdate thread binds its socket, or fails to
ServerBind ==
    /\ server = "starting"
    /\ pc # "done"
    /\ server' \in {"listening", "failed"}
    /\ UNCHANGED <<patchVars, flowVars, hostVars, deviceVars, token, device_type, version,
                   staged, available_versions, server_host, served, engine, client, temp_dir,
                   probe>>

\* lines 446-452: systemctl start update-engine, check=True
InstallLocalStartEngine ==
    /\ workflow = "install"
    /\ pc = "start_engine"
    /\ printed' = printed \cup {"Enabling update service"}
    /\ \E ok \in BOOLEAN :
        IF ok THEN engine' = "running" /\ pc' = "trigger" /\ UNCHANGED result
        ELSE Fail(CalledProcessError) /\ UNCHANGED engine
    /\ UNCHANGED <<patchVars, workflow, answer, remote_ip, session, hostVars, deviceVars,
                   token, device_type, version, staged, available_versions, server_host,
                   server, served, client, temp_dir, probe>>

\* lines 454-460 and 492-494: update_engine_client -update is started
InstallTrigger ==
    /\ workflow = "install"
    /\ pc = "trigger"
    /\ client' = [client EXCEPT !.state = "running"]
    /\ pc' = "await"
    /\ UNCHANGED <<patchVars, workflow, result, printed, answer, remote_ip, session,
                   hostVars, deviceVars, token, device_type, version, staged,
                   available_versions, server_host, server, served, engine, temp_dir, probe>>

\* what update_engine_client may write to stderr
StderrTexts == {"payload hash mismatch", "update check done"}

\* update_engine_client exits on the device
ClientExit ==
    /\ client.state = "running"
    /\ \E rc \in {0, 1}, err \in StderrTexts :
        client' = [state |-> "exited", rc |-> rc, stderr |-> err]
    /\ UNCHANGED <<patchVars, flowVars, hostVars, deviceVars, token, device_type, version,
                   staged, available_versions, server_host, server, served, engine, temp_dir, probe>>

LocalClientFailedNever(rc) == FALSE

\* line 461: process.wait() != 0
LocalClientFailed(rc) == rc # 0

RemoteClientFailedNever(rc) == FALSE

\* line 497: exit_status != 0
RemoteClientFailed(rc) == rc # 0

MsgUpdateError == "There was an error updating :("

\* lines 461-470 and 495-505: the exit status of update_engine_client
InstallAwait ==
    /\ workflow = "install"
    /\ pc = "await"
    /\ client.state = "exited"
    /\ IF session
       THEN IF RemoteClientFailed(client.rc)
            THEN /\ printed' = printed \cup {client.stderr}
                 /\ Fail(SystemExit(MsgUpdateError))
            ELSE /\ printed' = printed \cup {"Success! Please restart the reMarkable device!"}
                 /\ pc' = "cleanup"
                 /\ UNCHANGED result
       ELSE IF LocalClientFailed(client.rc)
            THEN /\ printed' = printed \cup {client.stderr}
                 /\ Fail(SystemExit(MsgUpdateError))
            ELSE /\ printed' = printed \cup {"Done! Would you like to shutdown? (y/N): "}
                 /\ pc' = "shutdown_prompt"
                 /\ UNCHANGED result
    /\ UNCHANGED <<patchVars, workflow, answer, remote_ip, session, hostVars, deviceVars,
                   installVars>>

\* lines 470-475: the operator's answer, and /sbin/shutdown now with check=True
InstallLocalShutdown ==
    /\ workflow = "install"
    /\ pc = "shutdown_prompt"
    /\ \E a \in Answers, ok \in BOOLEAN :
        IF SaysYes(a)
        THEN /\ powered_off' = ok
             /\ IF ok THEN pc' = "cleanup" /\ UNCHANGED result ELSE Fail(CalledProcessError)
        ELSE /\ pc' = "cleanup"
             /\ UNCHANGED <<powered_off, result>>
    /\ UNCHANGED <<patchVars, workflow, printed, answer, remote_ip, session, hostVars,
                   env, env0, sh, installVars>>

MsgUnreachable == "Device cannot reach server! Is the firewall blocking connections?"

ProbeFailedNever(check) == FALSE

\* line 484: check != 0
ProbeFailed(check) == check # 0

\* lines 477-489: sleep 2 && echo | nc {server_host} 8080 on the device; nc
\* can only connect to a server that listens
InstallProbe ==
    /\ workflow = "install"
    /\ pc = "probe"
    /\ \E check \in {0, 1} :
        /\ check = 0 => server = "listening"
        /\ probe' = check
        /\ IF ProbeFailed(check)
           THEN /\ Fail(SystemExit(MsgUnreachable))
                /\ printed' = printed \cup {"Checking if device can reach server"}
           ELSE /\ pc' = "remote_start_engine"
                /\ printed' = printed \cup {"Checking if device can reach server",
                                            "Starting update service on device"}
                /\ UNCHANGED result
    /\ UNCHANGED <<patchVars, workflow, answer, remote_ip, session, hostVars, deviceVars,
                   token, device_type, version, staged, available_versions, server_host,
                   server, served, engine, client, temp_dir>>

\* line 490: exec_command returns when the command is sent, nothing waits
\* for systemctl to exit
InstallRemoteStartEngine ==
    /\ workflow = "install"
    /\ pc = "remote_start_engine"
    /\ engine' = "starting"
    /\ pc' = "trigger"
    /\ UNCHANGED <<patchVars, workflow, result, printed, answer, remote_ip, session,
                   hostVars, deviceVars, token, device_type, version, staged,
                   available_versions, server_host, server, served, client, temp_dir, probe>>

\* systemctl start update-engine exits on the device
EngineStarted ==
    /\ engine = "starting"
    /\ engine' \in {"running", "failed"}
    /\ UNCHANGED <<patchVars, flowVars, hostVars, deviceVars, token, device_type, version,
                   staged, available_versions, server_host, server, served, client, temp_dir, probe>>

\* lines 507-510
InstallCleanup ==
    /\ workflow = "install"
    /\ pc = "cleanup"
    /\ temp_dir' = IF temp_dir = "created" THEN "removed" ELSE temp_dir
    /\ result' = Returned
    /\ pc' = "done"
    /\ UNCHANGED <<patchVars, workflow, printed, answer, remote_ip, session, hostVars,
                   deviceVars, token, device_type, version, staged, available_versions,
                   server_host, server, served, engine, client, probe>>

\* the version tokens the operator may give
Tokens == {"latest", "toltec", "2.15.0.1067", "9.9"}

\* the contents of ./updates when the command starts
StagedScenarios ==
    { <<>>,
      <<[device |-> 2, ids |-> {"3.2.3.1595"}]>>,
      <<[device |-> 1, ids |-> {"2.15.0.1067", "3.2.3.1595"}]>> }

InitInstall ==
    /\ workflow = "install"
    /\ pc = "resolve"
    /\ result = Running
    /\ printed = {}
    /\ answer = <<"-">>
    /\ remote_ip = <<>>
    /\ session = FALSE
    /\ HostSetup
    /\ IdleDevice
    /\ update_conf \in {S_General \o <<NL>> \o S_SERVER \o S_old \o <<NL>>, <<"a", "=", "1">>}
    /\ conf_before = update_conf
    /\ last_ip = <<>>
    /\ prev_ip = <<>>
    /\ npatch = 0
    /\ token \in Tokens
    /\ device_type \in {1, 2}
    /\ version = ""
    /\ staged \in StagedScenarios
    /\ available_versions = None
    /\ server_host = <<>>
    /\ server = "off"
    /\ served = None
    /\ engine = "stopped"
    /\ client = ClientIdle
    /\ temp_dir \in {"serve_folder", "unset"}
    /\ probe = -1

NextInstall ==
    \/ InstallResolve
    \/ InstallEnsureStaged
    \/ InstallFetch
    \/ InstallTopology
    \/ InstallAskHostIp
    \/ get_remarkable_ip
    \/ connect_to_rm
    \/ InstallEditConfig
    \/ InstallStartServer
    \/ ServerBind
    \/ InstallLocalStartEngine
    \/ InstallProbe
    \/ InstallRemoteStartEngine
    \/ EngineStarted
    \/ InstallTrigger
    \/ ClientExit
    \/ InstallAwait
    \/ InstallLocalShutdown
    \/ InstallCleanup

SpecInstall == InitInstall /\ [][NextInstall]_vars

\* ------------------------------------------------------------------------
\* SpecLookup: version_lookup and get_available_version applied to bounded
\* tokens, devices and staging directories
\* ------------------------------------------------------------------------

\* devices are numbered 0..MaxDevice; 1 and 2 are the known generations
MaxDevice == 3

LookupTokens == Tokens \cup {"3.2.3.1595", ""}

InitLookup ==
    /\ workflow = "lookup"
    /\ pc = "resolve"
    /\ result = Running
    /\ printed = {}
    /\ answer = <<"-">>
    /\ remote_ip = <<>>
    /\ session = FALSE
    /\ IdleHost
    /\ IdleDevice
    /\ update_conf = <<>>
    /\ conf_before = update_conf
    /\ last_ip = <<>>
    /\ prev_ip = <<>>
    /\ npatch = 0
    /\ token \in LookupTokens
    /\ device_type \in 0..MaxDevice
    /\ version = ""
    /\ staged \in StagedScenarios
    /\ available_versions = None
    /\ server_host = <<>>
    /\ server = "off"
    /\ served = None
    /\ engine = "stopped"
    /\ client = ClientIdle
    /\ temp_dir = "serve_folder"
    /\ probe = -1

\* lines 68-87, as lines 223 and 359 call it
LookupResolve ==
    /\ workflow = "lookup"
    /\ pc = "resolve"
    /\ LET r == version_lookup(token, device_type)
       IN  IF r.kind = "ok"
           THEN version' = r.value /\ pc' = "scan" /\ UNCHANGED result
           ELSE Fail([kind |-> r.kind, msg |-> r.msg]) /\ UNCHANGED version
    /\ UNCHANGED <<patchVars, workflow, printed, answer, remote_ip, session, hostVars,
                   deviceVars, token, device_type, staged, available_versions,
                   server_host, server, served, engine, client, temp_dir, probe>>

\* lines 332-340, as line 360 calls it
LookupScan ==
    /\ workflow = "lookup"
    /\ pc = "scan"
    /\ available_versions' = get_available_version(version, staged)
    /\ result' = Returned
    /\ pc' = "done"
    /\ UNCHANGED <<patchVars, workflow, printed, answer, remote_ip, session, hostVars,
                   deviceVars, token, device_type, version, staged,
                   server_host, server, served, engine, client, temp_dir, probe>>

NextLookup == LookupResolve \/ LookupScan

SpecLookup == InitLookup /\ [][NextLookup]_vars

\* ------------------------------------------------------------------------
\* Properties of the patch (SpecPatch)
\* ------------------------------------------------------------------------

LinesOf(doc) == Split(doc, NL)

ActiveServerLines(doc) ==
    {i \in 1..Len(LinesOf(doc)) : StartsWith(LinesOf(doc)[i], S_SERVER)}

Occurrences(list, l) == Cardinality({i \in 1..Len(list) : list[i] = l})

WithoutIndex(list, k) == SubSeq(list, 1, k - 1) \o SubSeq(list, k + 1, Len(list))

\* the line "SERVER=http://{ip}:8080", spelled out
ExpectedServerLine(ip) ==
    <<"S", "E", "R", "V", "E", "R", "=", "h", "t", "t", "p", ":", "/", "/">>
        \o ip \o <<":", "8", "0", "8", "0">>

\* C1: after one patch the document has exactly one line that begins with
\* "SERVER=", and every input line that began with "SERVER=" is still there
\* with "#" in front of it: as many copies as the input had, none deleted.
C1_OneActiveServerLine ==
    npatch >= 1 =>
        LET in == LinesOf(conf_before)
            out == LinesOf(update_conf)
        IN  /\ Cardinality(ActiveServerLines(update_conf)) = 1
            /\ \A i \in 1..Len(in) :
                   StartsWith(in[i], S_SERVER) =>
                       Occurrences(out, <<"#">> \o in[i])
                           = Occurrences(in, in[i]) + Occurrences(in, <<"#">> \o in[i])

\* a patch of a document that had two active SERVER= lines
C1_Witness == npatch = 1 /\ Cardinality(ActiveServerLines(conf_before)) = 2

\* C2: when the document has a [General] line (a line the code recognises as
\* such: one that starts with "[General]"; the last one when there are
\* several), the line "SERVER=http://{host}:{port}" is put right after it and
\* every other line stays where it was relative to the others, the SERVER=
\* lines with "#" in front; "[General]\nSERVER=old\n" patched with
\* (1.2.3.4, 8080) gives "[General]\nSERVER=http://1.2.3.4:8080\n#SERVER=old\n".
C2_InsertedAfterGeneral ==
    npatch >= 1 =>
        LET in == LinesOf(conf_before)
            out == LinesOf(update_conf)
            G == {i \in 1..Len(in) : StartsWith(in[i], S_General)}
        IN  /\ G # {} =>
                LET g == CHOOSE i \in G : \A j \in G : j <= i
                IN  /\ Len(out) = Len(in) + 1
                    /\ StartsWith(out[g], S_General)
                    /\ out[g + 1] = ExpectedServerLine(last_ip)
                    /\ \A i \in 1..Len(in) :
                           WithoutIndex(out, g + 1)[i] =
                               IF StartsWith(in[i], S_SERVER) THEN <<"#">> \o in[i] ELSE in[i]
            /\ (conf_before = S_General \o <<NL>> \o S_SERVER \o S_old \o <<NL>>
                    /\ last_ip = IP_1234) =>
                update_conf = S_General \o <<NL>>
                    \o <<"S", "E", "R", "V", "E", "R", "=", "h", "t", "t", "p", ":", "/", "/",
                         "1", ".", "2", ".", "3", ".", "4", ":", "8", "0", "8", "0">>
                    \o <<NL, "#">> \o S_SERVER \o S_old \o <<NL>>

\* the example of the claim has been patched
C2_Witness ==
    /\ npatch = 1
    /\ conf_before = S_General \o <<NL>> \o S_SERVER \o S_old \o <<NL>>
    /\ last_ip = IP_1234

NoGeneralLine(doc) ==
    \A i \in 1..Len(LinesOf(doc)) : ~StartsWith(LinesOf(doc)[i], S_General)

\* C3 as claimed: without a [General] line the new SERVER= line is the last
\* line of the patched document.
C3_AppendedAtEnd ==
    (npatch >= 1 /\ NoGeneralLine(conf_before)) =>
        LinesOf(update_conf)[Len(LinesOf(update_conf))] = ExpectedServerLine(last_ip)

\* C3 as amended: without a [General] line the patch does not fail and the
\* new SERVER= line is the first line of the patched document (insertion
\* point = index 0); the lines of the input follow it in their order.
C3_InsertedAtStart ==
    (npatch >= 1 /\ NoGeneralLine(conf_before)) =>
        LET in == LinesOf(conf_before)
            out == LinesOf(update_conf)
        IN  /\ Len(out) = Len(in) + 1
            /\ out[1] = ExpectedServerLine(last_ip)
            /\ \A i \in 1..Len(in) :
                   out[i + 1] = IF StartsWith(in[i], S_SERVER) THEN <<"#">> \o in[i] ELSE in[i]

\* a patch of a document of several lines, none of them a [General] line
C3_Witness ==
    /\ npatch = 1
    /\ NoGeneralLine(conf_before)
    /\ Len(LinesOf(conf_before)) >= 2
    /\ LinesOf(conf_before)[1] # <<>>

\* C4: after two patches in sequence exactly one line begins with "SERVER=",
\* and it carries the endpoint of the second patch.
C4_RepeatedPatch ==
    npatch = 2 =>
        /\ Cardinality(ActiveServerLines(update_conf)) = 1
        /\ \A i \in ActiveServerLines(update_conf) :
               LinesOf(update_conf)[i] = ExpectedServerLine(last_ip)

\* two patches with different endpoints
C4_Witness == npatch = 2 /\ prev_ip # last_ip /\ prev_ip # <<>>

\* C5: the output has one line more than the input, and taking one
\* "SERVER=" line out of the output leaves every input line that does not
\* begin with "SERVER=" at the position it had, verbatim.
C5_UnrelatedLinesKept ==
    npatch >= 1 =>
        LET in == LinesOf(conf_before)
            out == LinesOf(update_conf)
        IN  /\ Len(out) = Len(in) + 1
            /\ \E k \in 1..Len(out) :
                   /\ StartsWith(out[k], S_SERVER)
                   /\ \A i \in 1..Len(in) :
                          ~StartsWith(in[i], S_SERVER) => WithoutIndex(out, k)[i] = in[i]

\* a patch of a document with unrelated lines around a SERVER= line
C5_Witness ==
    /\ npatch = 1
    /\ LET in == LinesOf(conf_before)
       IN  /\ Len(in) = 3
           /\ ~StartsWith(in[1], S_SERVER)
           /\ StartsWith(in[2], S_SERVER)
           /\ ~StartsWith(in[3], S_SERVER) /\ in[3] # <<>>

\* ------------------------------------------------------------------------
\* Properties of the restore workflow (SpecRestore)
\* ------------------------------------------------------------------------

\* every command of the script has run and none failed
SwapCompleted == sh.pc = "exited" /\ ~sh.failed

\* the workflow ended in Failure: it ended, neither by returning nor by the
\* operator's Abort
Failure == result.kind \notin {"running", "returned"} /\ result.msg # "Aborted!!!"

Abort == result = [kind |-> "SystemExit", msg |-> "Aborted!!!"]

Success == result.kind = "returned"

ReportedDone ==
    \/ "Done! Would you like to shutdown? (y/N): " \in printed
    \/ "Done, Please reboot the device!" \in printed

\* C6: a completed swap toggles the partitions: started with active = 2 it
\* ends with active = 3 and fallback = 2, started with active = 3 it ends with
\* active = 2 and fallback = 3.
C6_SwapToggles ==
    SwapCompleted =>
        /\ env0.active_partition = "2" =>
               (env.active_partition = "3" /\ env.fallback_partition = "2")
        /\ env0.active_partition = "3" =>
               (env.active_partition = "2" /\ env.fallback_partition = "3")

\* a restore over SSH that started on partition 3 has completed
C6_Witness ==
    /\ SwapCompleted
    /\ env0.active_partition = "3"
    /\ session
    /\ Success

\* C7 as claimed: started with active_partition outside {2, 3} the swap is
\* rejected: active_partition and fallback_partition stay as they were and
\* the workflow does not report success.
C7_RejectsOtherPartitions ==
    env0.active_partition \notin {"2", "3"} =>
        /\ env.active_partition = env0.active_partition
        /\ env.fallback_partition = env0.fallback_partition
        /\ ~Success
        /\ ~ReportedDone

\* C8 as claimed: once the swap script has exited with a non-zero status the
\* workflow, when it ends, ends in Failure and never reports 'Done'.
C8_SwapFailureIsFatal ==
    (sh.pc = "exited" /\ sh.rc # 0) =>
        /\ ~ReportedDone
        /\ pc = "done" => Failure

Untouched == sh.pc = "idle" /\ ~session /\ env = env0 /\ ~powered_off

\* C9: without the operator's confirmation (an answer with a "y" or "Y" in
\* it) the workflow ends in Abort, and as long as no confirmation was given
\* the script has not started, no session is open and the boot environment
\* is as it was.
C9_ConfirmationRequired ==
    LET confirmed == \E i \in 1..Len(answer) : answer[i] \in {"y", "Y"}
    IN  /\ pc = "confirm" => (Untouched /\ result = Running)
        /\ (pc # "confirm" /\ ~confirmed) => (Abort /\ pc = "done" /\ Untouched)
        /\ ~Untouched => confirmed

\* the operator answered "N" and the workflow aborted
C9_Witness == answer = <<"N">> /\ Abort

\* ------------------------------------------------------------------------
\* Properties of the install workflow (SpecInstall)
\* ------------------------------------------------------------------------

ClientFailed == client.state = "exited" /\ client.rc # 0

\* C10: Install returns successfully only if update_engine_client exited
\* with status 0. Once the client has exited with another status, on the
\* local and on the remote path, no success is reported, and the workflow
\* ends in Failure with the client's stderr printed, although update.conf has
\* been patched and the server thread has been started.
C10_UpdateFailureIsFailure ==
    /\ (workflow = "install" /\ Success) => (client.state = "exited" /\ client.rc = 0)
    /\ ClientFailed =>
        /\ ~Success
        /\ "Success! Please restart the reMarkable device!" \notin printed
        /\ "Done! Would you like to shutdown? (y/N): " \notin printed
        /\ pc \in {"await", "done"}
        /\ pc = "done" =>
            /\ result = [kind |-> "SystemExit", msg |-> "There was an error updating :("]
            /\ client.stderr \in printed
            /\ npatch = 1
            /\ server # "off"

\* an install over SSH whose update check exited 1 has ended
C10_Witness ==
    /\ ClientFailed
    /\ pc = "done"
    /\ session
    /\ client.stderr = "payload hash mismatch"
    /\ server = "listening"

\* an install on the device whose update check exited 1 has ended
C10_WitnessLocal == ClientFailed /\ pc = "done" /\ ~session

\* C11 as claimed: whenever the install workflow has ended after the server
\* thread was started, by returning or by failing, the server has been
\* stopped: it is neither still binding nor still listening.
C11_ServerStoppedAtEnd ==
    (workflow = "install" /\ pc = "done" /\ served # None) =>
        server \notin {"starting", "listening"}

\* ------------------------------------------------------------------------
\* Properties of version resolution (SpecLookup)
\* ------------------------------------------------------------------------

KnownDevice == device_type \in {1, 2}

LiteralToken == token \notin {"latest", "toltec"}

TokenInCatalog ==
    \/ device_type = 1 /\ token \in {"2.15.0.1067", "3.2.3.1595"}
    \/ device_type = 2 /\ token \in {"3.2.3.1595"}

\* C12 as claimed: when the device is not one of the two known generations,
\* or the literal token is not in that generation's catalog, the lookup
\* fails, always with the one error kind an unknown version is reported
\* with, and returns no value.
C12_SingleErrorKind ==
    (workflow = "lookup" /\ pc # "resolve"
        /\ (~KnownDevice \/ (LiteralToken /\ ~TokenInCatalog))) =>
        /\ result.kind = "SystemExit"
        /\ version = ""

\* ------------------------------------------------------------------------
\* Properties of do_install: staging (SpecInstall)
\* ------------------------------------------------------------------------

MsgDownloading ==
    "The version firmware file you specified could not be found, attempting to download"

VersionStaged == \E i \in 1..Len(staged) : version \in staged[i].ids

PastStaging == workflow = "install" /\ pc \notin {"resolve", "ensure_staged", "fetch"}

DownloadErrors ==
    { SystemExit("Error: Was not able to download firmware file!"),
      SystemExit("Error: This version is not supported!"),
      SystemExit("Error: Something went wrong trying to download update file!") }

NothingStarted ==
    /\ npatch = 0 /\ update_conf = conf_before
    /\ server = "off" /\ engine = "stopped" /\ client = ClientIdle
    /\ ~session /\ env = env0

\* C13: the install goes past staging with a running workflow only when a
\* scan of the staged payloads shows the resolved version; a first scan
\* without it is followed by the fetch, the fetch by a rescan, and a failed
\* fetch or a rescan still without the version ends the workflow in one of
\* the download errors before any config write, server start or device
\* command.
C13_StagedBeforePatch ==
    /\ [](/\ (PastStaging /\ result = Running) =>
                (VersionStaged /\ available_versions # None)
          /\ (workflow = "install" /\ npatch > 0) => VersionStaged
          /\ (workflow = "install" /\ result \in DownloadErrors) =>
                (pc = "done" /\ NothingStarted /\ MsgDownloading \in printed))
    /\ [][/\ (workflow = "install" /\ pc = "ensure_staged"
                /\ get_available_version(version, staged) = None) =>
                    (pc' = "fetch" /\ MsgDownloading \in printed')
          /\ (workflow = "install" /\ pc = "fetch") =>
                \/ pc' = "topology" /\ get_available_version(version, staged') # None
                \/ pc' = "done" /\ result' \in DownloadErrors]_vars

C13_Witness ==
    /\ workflow = "install" /\ pc = "edit_config"
    /\ MsgDownloading \in printed /\ VersionStaged

C13_WitnessFailure ==
    /\ workflow = "install" /\ pc = "done"
    /\ result = SystemExit("Error: Something went wrong trying to download update file!")

\* ------------------------------------------------------------------------
\* Properties of do_install: topology (SpecInstall)
\* ------------------------------------------------------------------------

MsgNoUsb == "Could not find USB interface, assuming connected over WiFi"

NoUsableInterface == get_host_ip(snics, psutil_error) = <<>>

\* C14 as claimed: off the device, with the dependencies met and no IPv4
\* interface enumerated (an empty list or an enumeration error), the install
\* has failed once the topology step is over: no prompt for an address was
\* printed, no session was opened and update.conf was not patched.
C14_NoInterfaceIsFatal ==
    (workflow = "install" /\ ~on_device /\ deps_met /\ NoUsableInterface
        /\ pc \notin {"resolve", "ensure_staged", "fetch", "topology"}) =>
        /\ pc = "done" /\ result.kind = "SystemExit"
        /\ MsgNoUsb \notin printed
        /\ ~session
        /\ npatch = 0

\* ------------------------------------------------------------------------
\* Properties of do_install: the local and the remote path (SpecInstall)
\* ------------------------------------------------------------------------

MsgShutdownPrompt == "Done! Would you like to shutdown? (y/N): "

UpdateSucceeded ==
    /\ workflow = "install"
    /\ client.state = "exited" /\ ~ClientFailed
    /\ pc \in {"shutdown_prompt", "cleanup", "done"}

\* C15 as claimed: the remote path goes through the states the local path
\* goes through. On the local path a successful update is followed by the
\* shutdown prompt, and a failing start of the update service ends the run
\* in failure; so on either path an install whose client succeeded has shown
\* the shutdown prompt, and no install triggers the client or returns
\* normally after the start of the update service failed.
C15_PathsAgree ==
    /\ UpdateSucceeded => MsgShutdownPrompt \in printed
    /\ (workflow = "install" /\ engine = "failed") =>
            (client = ClientIdle /\ result # Returned)

\* ------------------------------------------------------------------------
\* Properties of RESTORE_CODE: the two partition variables (SpecRestore)
\* ------------------------------------------------------------------------

\* the run starts with active and fallback in {2, 3} and different
StartsDistinct ==
    /\ env0.active_partition \in {"2", "3"}
    /\ env0.fallback_partition \in {"2", "3"}
    /\ env0.active_partition # env0.fallback_partition

BeforeFallbackWrite ==
    sh.pc \in {"idle", "set_upgrade_available", "set_bootcount", "read_active",
               "choose", "write_fallback"}

\* the fallback write has succeeded, as every command before it, and the
\* active write has not run yet
BetweenWrites == sh.pc = "write_active" /\ ~sh.failed

\* C16 as claimed: started with active and fallback in {2, 3} and different,
\* active_partition differs from fallback_partition in every reachable state,
\* the state between the two writes of the script included.
C16_AlwaysDistinct ==
    StartsDistinct => env.active_partition # env.fallback_partition

\* C16, amended: started so, active_partition differs from fallback_partition
\* in every state before the script writes fallback_partition and in every
\* state after all commands of the script succeeded; between the two writes
\* both variables hold the old active partition.
C16_DistinctOutsideSwap ==
    StartsDistinct =>
        /\ BeforeFallbackWrite =>
               /\ env.active_partition = env0.active_partition
               /\ env.fallback_partition = env0.fallback_partition
        /\ SwapCompleted =>
               /\ env.active_partition # env.fallback_partition
               /\ env.active_partition \in {"2", "3"}
               /\ env.fallback_partition \in {"2", "3"}
        /\ BetweenWrites =>
               /\ env.active_partition = env0.active_partition
               /\ env.fallback_partition = env0.active_partition

C16_Witness == StartsDistinct /\ BetweenWrites /\ on_device

C16_WitnessCompleted == StartsDistinct /\ SwapCompleted /\ env0.active_partition = "2"

\* C17: the script writes fallback_partition before active_partition. Until
\* its last command has run active_partition holds its value from before the
\* swap; afterwards it holds that value or the new partition, nothing else;
\* fallback_partition changes only at the write of line 43, with
\* active_partition still untouched, and active_partition changes only at
\* the write of line 44, the script's last command.
C17_FallbackWrittenFirst ==
    /\ [](/\ sh.pc # "exited" => env.active_partition = env0.active_partition
          /\ env.active_partition \in {env0.active_partition, sh.NEWPART}
          /\ BeforeFallbackWrite => env.fallback_partition = env0.fallback_partition)
    /\ [][/\ env'.fallback_partition # env.fallback_partition =>
                /\ sh.pc = "write_fallback" /\ sh'.pc = "write_active"
                /\ env'.fallback_partition = sh.OLDPART
                /\ env'.active_partition = env0.active_partition
          /\ env'.active_partition # env.active_partition =>
                /\ sh.pc = "write_active" /\ sh'.pc = "exited"
                /\ env'.active_partition = sh.NEWPART]_vars

\* the script was cut short by its last write failing after the fallback
\* write went through: the tablet still boots the old partition
C17_Witness ==
    /\ sh.pc = "exited" /\ sh.rc # 0
    /\ env.fallback_partition # env0.fallback_partition
    /\ env.fallback_partition = sh.OLDPART
    /\ env.active_partition = env0.active_partition

C17_WitnessSwapped ==
    /\ sh.pc = "exited"
    /\ env.active_partition = sh.NEWPART
    /\ env.active_partition # env0.active_partition

\* ------------------------------------------------------------------------
\* Properties of do_install: order of the steps (SpecInstall)
\* ------------------------------------------------------------------------

\* update.conf holds the patched document with the server's address
ConfigWritten ==
    /\ npatch = 1
    /\ update_conf = set_server_config(conf_before, server_host_name(server_host, UPDATE_PORT))

ServerStarted == server # "off"

ProbeDone == probe # -1

TriggerIssued == engine # "stopped" \/ client # ClientIdle

\* C18: in an install the server thread is started only after update.conf
\* has been written back, the probe of the remote path runs only after the
\* server thread was started, and the update service and the update client
\* are started only after the config write, the start of the server and, on
\* the remote path, a finished probe.
C18_StepsInOrder ==
    workflow = "install" =>
        /\ ServerStarted => ConfigWritten
        /\ ProbeDone => (session /\ ServerStarted)
        /\ pc \in {"probe", "remote_start_engine"} => (session /\ ServerStarted)
        /\ TriggerIssued =>
               /\ ConfigWritten
               /\ ServerStarted
               /\ session => probe = 0
        /\ "Starting update service on device" \in printed => probe = 0
        /\ "Enabling update service" \in printed => (ConfigWritten /\ ServerStarted)

C18_Witness ==
    /\ workflow = "install" /\ session
    /\ probe = 0 /\ engine # "stopped" /\ client.state = "running"
    /\ ConfigWritten /\ ServerStarted

C18_WitnessLocal ==
    /\ workflow = "install" /\ ~session
    /\ engine = "running" /\ client.state = "running"
    /\ ConfigWritten /\ ServerStarted

\* ------------------------------------------------------------------------
\* Properties of do_install: the server thread (SpecInstall)
\* ------------------------------------------------------------------------

\* C19 as claimed: on the local and on the remote path, whenever the update
\* client has been invoked the server thread has bound its socket and
\* listens; the update service is not started and the client is not running
\* while the server is still starting or has failed to bind.
C19_ListeningBeforeTrigger ==
    (workflow = "install" /\ TriggerIssued) => server = "listening"

\* C20: on the remote path a probe that exits non-zero ends the install at
\* once with the "cannot reach server" error: the update service is not
\* started, the update client is not invoked, the message announcing the
\* start of the service is not printed, and the probe is run once only.
C20_FailedProbeIsFatal ==
    /\ []((workflow = "install" /\ probe \notin {-1, 0}) =>
            /\ session
            /\ pc = "done"
            /\ result = SystemExit(MsgUnreachable)
            /\ ~TriggerIssued
            /\ "Starting update service on device" \notin printed)
    /\ [][probe # -1 => probe' = probe]_vars

C20_Witness ==
    /\ workflow = "install" /\ session
    /\ probe = 1 /\ pc = "done"
    /\ server \in {"starting", "listening", "failed"}

\* ------------------------------------------------------------------------
\* Properties of do_install: the two commands of the trigger (SpecInstall)
\* ------------------------------------------------------------------------

ClientInvoked == client.state # "idle"

\* C21 as claimed: on both paths the command that starts the update service
\* has exited, successfully, before update_engine_client is invoked: the
\* client is never invoked while systemctl is still running on the device,
\* nor after it failed.
C21_TriggerInSequence ==
    (workflow = "install" /\ ClientInvoked) => engine = "running"

\* ------------------------------------------------------------------------
\* Properties of do_install: the USB address (SpecInstall)
\* ------------------------------------------------------------------------

\* the enumerated IPv4 addresses in the USB-tether subnet 10.11.99.x
UsbCandidates ==
    IF psutil_error THEN {}
    ELSE {i \in 1..Len(snics) :
            snics[i].family = "AF_INET" /\ StartsWith(snics[i].address, S_usb_prefix)}

\* the topology step has decided how the device is reached
TopologyDecided ==
    /\ workflow = "install" /\ ~on_device
    /\ pc \in {"ask_host_ip", "ask_device_ip", "connect"} \/ session

\* C22 as claimed: the install goes to the device's fixed USB address
\* without prompting exactly when one enumerated address lies in 10.11.99.x,
\* and then serves from that address; with no such address, or more than
\* one, the operator has been prompted before anything connects.
C22_UsbOnlyWithOneCandidate ==
    TopologyDecided =>
        IF Cardinality(UsbCandidates) = 1
        THEN /\ MsgNoUsb \notin printed
             /\ remote_ip = IP_device_usb
             /\ \E i \in UsbCandidates : server_host = snics[i].address
        ELSE MsgNoUsb \in printed

\* ------------------------------------------------------------------------
\* Properties of do_install: the optional shutdown (SpecInstall)
\* ------------------------------------------------------------------------

\* C23 as claimed: once update_engine_client has exited with status 0, the
\* install that has ended has returned normally and has removed the
\* temporary serve folder it created, whatever the shutdown command the
\* operator asked for did.
C23_ShutdownIsBestEffort ==
    (UpdateSucceeded /\ pc = "done") =>
        /\ result = Returned
        /\ temp_dir # "created"

\* ------------------------------------------------------------------------
\* Properties of do_install: the payloads served (SpecInstall)
\* ------------------------------------------------------------------------

\* the resolved version is staged for the device generation asked for
StagedForDevice ==
    \E i \in 1..Len(staged) : staged[i].device = device_type /\ version \in staged[i].ids

\* C24 as claimed: what the install hands to the server thread is keyed by
\* the device generation asked for and contains the resolved version, and
\* the install goes past staging only with the version staged for that
\* generation: a payload staged for the other generation alone leads to a
\* fetch.
C24_ServedForDevice ==
    /\ (workflow = "install" /\ served # None) =>
            /\ served[1].device = device_type
            /\ version \in served[1].ids
    /\ (PastStaging /\ result = Running) => StagedForDevice

====
